---- MODULE Spec2Model ----
(***************************************************************************)
(* Model of discord_presence.py: the label classifier (derive_label and    *)
(* its helpers) and the Discord presence client (PresenceClient) with its  *)
(* reconnect/backoff loop (safe_update).                                   *)
(*                                                                         *)
(* Text is modelled as a sequence of characters, each character a          *)
(* one-element string; the two non-ASCII characters of the source are the  *)
(* tokens "EMDASH" (U+2014) and "ELLIPSIS" (U+2026), one character each.   *)
(***************************************************************************)
EXTENDS Integers, Sequences, FiniteSets, TLC

VARIABLES
    terms,      \* SENSITIVE_TERMS: the configured term set
    title,      \* window title of the observation
    exe,        \* executable name of the observation (lowercase, "" if unknown)
    label,      \* result of derive_label: [text, image]
    lpc,        \* classifier position: "observed" | "classified"
    rpc,        \* PresenceClient._rpc: 0 is None, k > 0 the k-th Presence object
    connected,  \* PresenceClient._connected
    pc,         \* position inside safe_update
    backoff,    \* local variable backoff of safe_update, in units of 1/640 second
    state,      \* argument state of the running safe_update call
    raised,     \* kind of the exception safe_update raised, "none" if none
    events,     \* what the running safe_update call did so far: channel calls and sleeps
    attempts,   \* number of times the running safe_update call entered self.update
    handles,    \* number of Presence objects created so far
    failures,   \* failing channel calls so far in the running call
    calls,      \* safe_update calls started so far
    env,        \* the MASK_TERMS setting of the environment: [set, value]
    mpc,        \* position of the program: module start-up, main's loop, its exit
    cfg,        \* args of main: [update_secs, check_interval]
    clock,      \* time.time(), in units of 1/640 second
    now,        \* local variable now of main
    last_update,\* local variable last_update of main
    okTimes,    \* times of the successful channel updates so far, latest last
    hstate,     \* what happened to each Presence object: [opened, broken, closed]
    teardown,   \* the client.close() of main: times called, channel calls, exception
    lastCall,   \* the last call of a PresenceClient method as its caller saw it
    interrupted,\* the KeyboardInterrupt delivered to main: [seen, during, ticks]
    exitCode,   \* exit status of the process, -1 while it runs
    ticks       \* passes of main's loop started so far

vars == <<terms, title, exe, label, lpc, rpc, connected, pc, backoff, state,
          raised, events, attempts, handles, failures, calls, env, mpc, cfg, clock,
          now, last_update, okTimes, hstate, teardown, lastCall, interrupted,
          exitCode, ticks>>

labelVars == <<terms, title, exe, label, lpc>>

clientVars == <<rpc, connected, pc, backoff, state, raised, events, attempts,
                handles, failures, calls>>

mainVars == <<mpc, cfg, clock, now, last_update, okTimes, interrupted, exitCode, ticks>>

historyVars == <<hstate, teardown, lastCall>>

----------------------------------------------------------------------------
(* Bounds of the model *)

\* longest title enumerated character by character
MaxCore == 3
\* longest tail that follows the padding of a long title
MaxTail == 3
\* long titles have between MaxLabelLen - PadSlack and MaxLabelLen + PadSlack
\* padding characters before their tail
PadSlack == 2
\* largest number of configured sensitive terms
MaxTerms == 2
\* failing channel calls the environment makes within one safe_update call
MaxFailures == 6
\* safe_update calls made on one PresenceClient
MaxCalls == 2
\* longest MASK_TERMS value
MaxEnvLen == 4
\* calls of connect, update, close and safe_update in one run, a failed channel
\* call of safe_update counting as one more
MaxApiCalls == 5
\* iterations of the poll loop of main, a failed channel call of the running
\* safe_update counting as one more
MaxTicks == 3

----------------------------------------------------------------------------
(* Characters and strings *)

UpperLetters == <<"A", "B", "C", "D", "E", "F", "G", "H", "I", "J", "K", "L", "M",
                  "N", "O", "P", "Q", "R", "S", "T", "U", "V", "W", "X", "Y", "Z">>

LowerLetters == <<"a", "b", "c", "d", "e", "f", "g", "h", "i", "j", "k", "l", "m",
                  "n", "o", "p", "q", "r", "s", "t", "u", "v", "w", "x", "y", "z">>

Digits == {"0", "1", "2", "3", "4", "5", "6", "7", "8", "9"}

Range(s) == {s[i] : i \in 1..Len(s)}

\* str.lower() on one character
LowerChar(c) ==
    IF c \in Range(UpperLetters)
    THEN LowerLetters[CHOOSE i \in 1..Len(UpperLetters) : UpperLetters[i] = c]
    ELSE c

\* str.lower()
Lower(s) == [i \in 1..Len(s) |-> LowerChar(s[i])]

\* whitespace as str.strip() and the regex class \s see it
IsSpace(c) == c \in {" ", "\t", "\n", "\r", "\f"}

\* [a-z] under re.IGNORECASE
IsAlpha(c) == LowerChar(c) \in Range(LowerLetters)

\* [a-z0-9] under re.IGNORECASE
IsAlnum(c) == IsAlpha(c) \/ c \in Digits

\* [a-z0-9-] under re.IGNORECASE
IsLabelChar(c) == IsAlnum(c) \/ c = "-"

\* needle in hay
Contains(hay, needle) ==
    \E i \in 1..(Len(hay) - Len(needle) + 1) :
        \A k \in 1..Len(needle) : hay[i + k - 1] = needle[k]

StartsWith(s, p) == Len(p) <= Len(s) /\ \A k \in 1..Len(p) : s[k] = p[k]

\* str.rstrip()
RStrip(s) ==
    LET keep == {i \in 1..Len(s) : ~IsSpace(s[i])}
    IN  IF keep = {} THEN <<>>
        ELSE SubSeq(s, 1, CHOOSE i \in keep : \A j \in keep : j <= i)

\* str.lstrip()
LStrip(s) ==
    LET keep == {i \in 1..Len(s) : ~IsSpace(s[i])}
    IN  IF keep = {} THEN <<>>
        ELSE SubSeq(s, CHOOSE i \in keep : \A j \in keep : i <= j, Len(s))

\* str.strip()
Strip(s) == RStrip(LStrip(s))

\* re.sub(r"\s+", " ", s)
CollapseWhitespace(s) ==
    LET F[i \in 0..Len(s)] ==
            IF i = 0 THEN <<>>
            ELSE IF IsSpace(s[i])
                 THEN IF i > 1 /\ IsSpace(s[i - 1]) THEN F[i - 1]
                      ELSE Append(F[i - 1], " ")
                 ELSE Append(F[i - 1], s[i])
    IN  F[Len(s)]

----------------------------------------------------------------------------
(* Configuration and defaults *)

SAFE_MASK_MESSAGE ==
    <<"W", "o", "r", "k", "i", "n", "g", " ", "EMDASH", " ", "d", "e", "t", "a",
      "i", "l", "s", " ", "h", "i", "d", "d", "e", "n">>

SAFE_IDLE_MESSAGE == <<"I", "d", "l", "e">>

BROWSERS == {"chrome.exe", "msedge.exe", "firefox.exe", "brave.exe", "opera.exe",
             "vivaldi.exe"}

APP_MAP ==
    [e \in {"excel.exe", "winword.exe", "powerpnt.exe", "notepad.exe", "code.exe",
            "pycharm64.exe"} |->
        CASE e = "excel.exe" ->
               <<"W", "o", "r", "k", "i", "n", "g", " ", "i", "n", " ",
                 "E", "x", "c", "e", "l">>
          [] e = "winword.exe" ->
               <<"W", "o", "r", "k", "i", "n", "g", " ", "i", "n", " ",
                 "W", "o", "r", "d">>
          [] e = "powerpnt.exe" ->
               <<"W", "o", "r", "k", "i", "n", "g", " ", "i", "n", " ",
                 "P", "o", "w", "e", "r", "P", "o", "i", "n", "t">>
          [] e = "notepad.exe" ->
               <<"E", "d", "i", "t", "i", "n", "g", " ", "T", "e", "x", "t">>
          [] e = "code.exe" ->
               <<"C", "o", "d", "i", "n", "g", " ", "i", "n", " ",
                 "V", "S", " ", "C", "o", "d", "e">>
          [] e = "pycharm64.exe" ->
               <<"C", "o", "d", "i", "n", "g", " ", "i", "n", " ",
                 "P", "y", "C", "h", "a", "r", "m">>]

\* default of the parameter max_len of sanitize_title_to_short_label
MaxLabelLen == 40

\* longest DNS label DOMAIN_RE accepts: one character, up to 61, one character
MaxDnsLabel == 63

----------------------------------------------------------------------------
(* DOMAIN_RE.search(title) *)

\* The label that starts at i runs up to the next dot: the position of that dot,
\* or 0 when no label followed by a dot starts at i.
DotAfterLabel(s, i) ==
    IF i > Len(s) \/ ~IsAlnum(s[i]) THEN 0
    ELSE LET dots == {j \in (i + 1)..Len(s) :
                         /\ s[j] = "."
                         /\ \A k \in i..(j - 1) : IsLabelChar(s[k])}
         IN  IF dots = {} THEN 0
             ELSE LET j == CHOOSE d \in dots : TRUE
                  IN  IF IsAlnum(s[j - 1]) /\ j - i <= MaxDnsLabel THEN j ELSE 0

\* [a-z]{2,} at p, greedy: the last position of the run, or 0
TldEnd(s, p) ==
    LET run == {e \in p..Len(s) : \A k \in p..e : IsAlpha(s[k])}
    IN  IF Cardinality(run) < 2 THEN 0
        ELSE CHOOSE e \in run : \A f \in run : f <= e

\* (?:label\.)+[a-z]{2,} continued at i after n labels, as the backtracking
\* matcher tries it: one more label first, the top-level domain otherwise.
\* The last position of the match, or 0.
RECURSIVE HostEnd(_, _, _)
HostEnd(s, i, n) ==
    LET j    == DotAfterLabel(s, i)
        more == IF j = 0 THEN 0 ELSE HostEnd(s, j + 1, n + 1)
    IN  IF more # 0 THEN more
        ELSE IF n >= 1 THEN TldEnd(s, i)
        ELSE 0

\* the group "host" of the leftmost match, or <<>> when nothing matches
DOMAIN_RE_search(s) ==
    LET starts == {i \in 1..Len(s) : HostEnd(s, i, 0) # 0}
    IN  IF starts = {} THEN <<>>
        ELSE LET i == CHOOSE a \in starts : \A b \in starts : a <= b
             IN  SubSeq(s, i, HostEnd(s, i, 0))

----------------------------------------------------------------------------
(* The classifier *)

\* title_has_sensitive_term without the lowercasing of the title
title_has_sensitive_term_cased(t) ==
    \E term \in terms : term # <<>> /\ Contains(t, term)

title_has_sensitive_term(t) ==
    LET low == Lower(t)
    IN  \E term \in terms : term # <<>> /\ Contains(low, term)

sanitize_title_to_short_label(t) ==
    LET stripped  == Strip(t)
        collapsed == CollapseWhitespace(stripped)
        cut       == IF Len(collapsed) > MaxLabelLen
                     THEN Append(RStrip(SubSeq(collapsed, 1, MaxLabelLen - 1)),
                                 "ELLIPSIS")
                     ELSE collapsed
    IN  IF cut = <<>> THEN SAFE_IDLE_MESSAGE ELSE cut

BrowsingPrefix == <<"B", "r", "o", "w", "s", "i", "n", "g", " ">>

\* derive_label with a mapped label that carries the sanitized title along
derive_label_titled_app(t, e) ==
    IF title_has_sensitive_term(t)
    THEN [text |-> SAFE_MASK_MESSAGE, image |-> "None"]
    ELSE IF t = <<>>
    THEN [text |-> SAFE_IDLE_MESSAGE, image |-> "None"]
    ELSE IF e \in BROWSERS
    THEN LET host == DOMAIN_RE_search(t)
         IN  IF host # <<>>
             THEN [text |-> BrowsingPrefix \o Lower(host), image |-> "None"]
             ELSE [text |-> BrowsingPrefix \o sanitize_title_to_short_label(t),
                   image |-> "None"]
    ELSE IF e \in DOMAIN APP_MAP
    THEN [text |-> APP_MAP[e] \o <<" ">> \o sanitize_title_to_short_label(t),
          image |-> "None"]
    ELSE [text |-> sanitize_title_to_short_label(t), image |-> "None"]

derive_label(t, e) ==
    IF title_has_sensitive_term(t)
    THEN [text |-> SAFE_MASK_MESSAGE, image |-> "None"]
    ELSE IF t = <<>>
    THEN [text |-> SAFE_IDLE_MESSAGE, image |-> "None"]
    ELSE IF e \in BROWSERS
    THEN LET host == DOMAIN_RE_search(t)
         IN  IF host # <<>>
             THEN [text |-> BrowsingPrefix \o Lower(host), image |-> "None"]
             ELSE [text |-> BrowsingPrefix \o sanitize_title_to_short_label(t),
                   image |-> "None"]
    ELSE IF e \in DOMAIN APP_MAP
    THEN [text |-> APP_MAP[e], image |-> "None"]
    ELSE [text |-> sanitize_title_to_short_label(t), image |-> "None"]

----------------------------------------------------------------------------
(* Inputs of the classifier *)

TitleAlphabet == {"z", "Z", " ", "\t", "."}

PadChars == {"z", " "}

TailAlphabet == {"z", " "}

RECURSIVE StringsUpTo(_, _)
StringsUpTo(alphabet, n) ==
    IF n = 0 THEN {<<>>}
    ELSE LET shorter == StringsUpTo(alphabet, n - 1)
         IN  shorter \cup {Append(s, c) : s \in shorter, c \in alphabet}

Pad(c, n) == [i \in 1..n |-> c]

ShortTitles == StringsUpTo(TitleAlphabet, MaxCore)

LongTitles ==
    {Pad(c, n) \o tail :
        c \in PadChars,
        n \in (MaxLabelLen - PadSlack)..(MaxLabelLen + PadSlack),
        tail \in StringsUpTo(TailAlphabet, MaxTail)}

Titles == ShortTitles \cup LongTitles

Exes == BROWSERS \cup DOMAIN APP_MAP \cup {"", "explorer.exe"}

\* terms as parse_mask_terms stores them: lowercase, stripped, not empty
TermPool == {<<"z">>, <<"z", "z">>, <<"z", " ", "z">>}

TermSets == {S \in SUBSET TermPool : Cardinality(S) <= MaxTerms}

NoLabel == [text |-> <<>>, image |-> "None"]

----------------------------------------------------------------------------
(* Start-up configuration: SENSITIVE_TERMS = parse_mask_terms() *)

DEFAULT_SENSITIVE_TERMS ==
    <<<<"c", "o", "m", "p", "a", "n", "y", "n", "a", "m", "e">>,
      <<"c", "o", "n", "f", "i", "d", "e", "n", "t", "i", "a", "l">>,
      <<"p", "r", "i", "v", "a", "c", "y">>,
      <<"s", "e", "c", "r", "e", "t">>,
      <<"n", "c", "e", "s">>,
      <<"b", "u", "d", "g", "e", "t">>,
      <<"i", "n", "v", "o", "i", "c", "e">>,
      <<"p", "a", "y", "r", "o", "l", "l">>,
      <<"s", "t", "u", "d", "e", "n", "t">>,
      <<"m", "e", "d", "i", "c", "a", "l">>,
      <<"l", "e", "g", "a", "l">>,
      <<"h", "r">>,
      <<"f", "i", "n", "a", "n", "c", "e">>,
      <<"s", "a", "l", "a", "r", "y">>,
      <<"c", "o", "n", "t", "r", "a", "c", "t">>,
      <<"n", "d", "a">>>>

\* the value of an environment variable that is not set: os.getenv returns None
Unset == [set |-> FALSE, value |-> <<>>]

\* str.split(","): the pieces between the commas, in order
RECURSIVE SplitOnComma(_)
SplitOnComma(s) ==
    LET commas == {i \in 1..Len(s) : s[i] = ","}
    IN  IF commas = {} THEN <<s>>
        ELSE LET i == CHOOSE a \in commas : \A b \in commas : a <= b
             IN  <<SubSeq(s, 1, i - 1)>> \o SplitOnComma(SubSeq(s, i + 1, Len(s)))

\* getenv_str(name) with default None: the value, or None when it is not set or
\* blank
getenv_str(e) == IF e.set /\ Strip(e.value) # <<>> THEN e ELSE Unset

\* parse_mask_terms(): the terms of MASK_TERMS when getenv_str gives a value, the
\* defaults otherwise; lowercased and made unique (as a set: the sorting of the
\* tuple is of no consequence to its readers)
parse_mask_terms(e) ==
    LET v == getenv_str(e)
    IN  IF v.set /\ v.value # <<>>
        THEN LET pieces == SplitOnComma(v.value)
                 kept   == {i \in 1..Len(pieces) : Strip(pieces[i]) # <<>>}
             IN  {Lower(Lower(Strip(pieces[i]))) : i \in kept}
        ELSE {Lower(d) : d \in Range(DEFAULT_SENSITIVE_TERMS)}

EnvAlphabet == {"z", "Z", ",", " "}

\* the settings of MASK_TERMS: not set, or a string
MaskTermsSettings ==
    {Unset} \cup {[set |-> TRUE, value |-> v] : v \in StringsUpTo(EnvAlphabet, MaxEnvLen)}

----------------------------------------------------------------------------
(* The presence client *)

\* 1.0 second, in the model's time unit of 1/640 second: every value backoff
\* takes below its cap is 2^a * 1.5^b seconds with b <= a + 7, a whole number of
\* units, so the integer arithmetic below is the float arithmetic of the source;
\* the 0.1 second of main's shortest poll sleep is a whole number of units too
OneSecond == 640

\* backoff = 1.0
InitialBackoff == OneSecond

\* max_backoff = 16.0
max_backoff == 16 * OneSecond

Min(a, b) == IF a <= b THEN a ELSE b

\* the doubling without its cap
Doubled_uncapped(b) == b * 2

\* backoff = min(max_backoff, backoff * 2.0)
Doubled(b) == Min(max_backoff, b * 2)

\* backoff = min(max_backoff, backoff * 1.5)
Slowed(b) == Min(max_backoff, (b * 3) \div 2)

\* what a call on the channel (Presence.connect, Presence.update) does: it
\* succeeds, or raises InvalidPipe / ConnectionRefusedError ("unavailable"),
\* InvalidID ("invalid_id") or any other Exception ("other")
Outcomes == {"ok", "unavailable", "invalid_id", "other"}

\* the state strings safe_update is called with
States == {"Idle", "Working"}

ConnectEvent(h, o) == [op |-> "connect", handle |-> h, outcome |-> o, arg |-> "", secs |-> 0]

UpdateEvent(h, o, s) == [op |-> "update", handle |-> h, outcome |-> o, arg |-> s, secs |-> 0]

SleepEvent(d) == [op |-> "sleep", handle |-> 0, outcome |-> "ok", arg |-> "", secs |-> d]

\* the environment lets at most MaxFailures channel calls of one safe_update fail
MayHappen(o) == o = "ok" \/ failures < MaxFailures

\* the except clauses with InvalidID handled like any other exception
ExceptClause_retry_invalid_id(o) ==
    IF o = "unavailable"
    THEN [pc |-> "pipe_handler", raised |-> "none"]
    ELSE [pc |-> "transient_handler", raised |-> "none"]

\* The except clauses of safe_update's outer try, for an exception of kind o
\* raised by self.update: where control goes, and what is raised to the caller.
ExceptClause(o) ==
    CASE o = "unavailable" -> [pc |-> "pipe_handler", raised |-> "none"]
      [] o = "invalid_id"  -> [pc |-> "raised", raised |-> "invalid_id"]
      [] OTHER             -> [pc |-> "transient_handler", raised |-> "none"]

\* The except clause of the inner try around self.connect() in the pipe handler:
\* InvalidID, InvalidPipe and ConnectionRefusedError continue the loop, any
\* other exception leaves safe_update.
InnerExceptClause(o) ==
    IF o \in {"invalid_id", "unavailable"}
    THEN [pc |-> "attempt", raised |-> "none"]
    ELSE [pc |-> "raised", raised |-> o]

ClearEvent(h, o) == [op |-> "clear", handle |-> h, outcome |-> o, arg |-> "", secs |-> 0]

CloseEvent(h, o) == [op |-> "close", handle |-> h, outcome |-> o, arg |-> "", secs |-> 0]

\* what a PresenceClient method leaves behind: the fields, the channel calls it
\* made, and the exception it raised to its caller
Left(r, c, ch, x) == [rpc |-> r, connected |-> c, channel |-> ch, raised |-> x]

\* connect() that opens a new channel whatever the session state
connect_always_reopens(r, c, fresh, o) ==
    Left(fresh, (o = "ok") \/ c, <<ConnectEvent(fresh, o)>>,
         IF o = "ok" THEN "none" ELSE o)

\* PresenceClient.connect on a client with fields r (_rpc, 0 for None) and c
\* (_connected), when a new Presence would be handle fresh and its connect
\* would end with outcome o
connect(r, c, fresh, o) ==
    IF c /\ r # 0
    THEN Left(r, c, <<>>, "none")
    ELSE Left(fresh, (o = "ok") \/ c, <<ConnectEvent(fresh, o)>>,
              IF o = "ok" THEN "none" ELSE o)

\* PresenceClient.update(state = s): oc is the outcome of the channel's connect
\* if one is made, ou the outcome of the channel's update
update(r, c, fresh, oc, ou, s) ==
    LET k == IF ~c \/ r = 0 THEN connect(r, c, fresh, oc) ELSE Left(r, c, <<>>, "none")
    IN  IF k.raised # "none" THEN k
        ELSE IF k.rpc = 0 THEN [k EXCEPT !.raised = "AssertionError"]
        ELSE [k EXCEPT !.channel = Append(k.channel, UpdateEvent(k.rpc, ou, s)),
                       !.raised = IF ou = "ok" THEN "none" ELSE ou]

\* PresenceClient.close(): ocl is the outcome of the channel's clear, ocs of
\* its close; the finally block runs whatever happened and nothing is caught
close(r, c, ocl, ocs) ==
    IF r = 0 THEN Left(0, FALSE, <<>>, "none")
    ELSE IF ocl # "ok" THEN Left(0, FALSE, <<ClearEvent(r, ocl)>>, ocl)
    ELSE Left(0, FALSE, <<ClearEvent(r, "ok"), CloseEvent(r, ocs)>>,
              IF ocs = "ok" THEN "none" ELSE ocs)

\* a Presence object nothing has been called on
Fresh == [opened |-> FALSE, broken |-> FALSE, closed |-> FALSE]

\* The history of the Presence objects after the channel calls ch: opened when
\* its connect succeeded, broken when an update on it failed with
\* connection-unavailable, closed when its close was called.
RECURSIVE Tracked(_, _)
Tracked(hs, ch) ==
    IF ch = <<>> THEN hs
    ELSE LET e   == Head(ch)
             grown == IF e.handle > Len(hs) THEN Append(hs, Fresh) ELSE hs
             h   == e.handle
             one == CASE e.op = "connect" /\ e.outcome = "ok" ->
                            [grown EXCEPT ![h].opened = TRUE]
                      [] e.op = "update" /\ e.outcome = "unavailable" ->
                            [grown EXCEPT ![h].broken = TRUE]
                      [] e.op = "close" ->
                            [grown EXCEPT ![h].closed = TRUE]
                      [] OTHER -> grown
         IN  Tracked(one, Tail(ch))

\* the channel call a step of safe_update added to its log, if any
Added(before, after) ==
    IF Len(after) = Len(before) + 1 /\ after[Len(after)].op # "sleep"
    THEN <<after[Len(after)]>>
    ELSE <<>>

NoTeardown == [calls |-> 0, rpcBefore |-> 0, channel |-> <<>>, raised |-> "none"]

NoCall ==
    [op |-> "none", count |-> 0, prevOp |-> "none", rpcBefore |-> 0,
     connectedBefore |-> FALSE, channel |-> <<>>, raised |-> "none"]

\* no KeyboardInterrupt has arrived
NotInterrupted == [seen |-> FALSE, during |-> "none", ticks |-> 0]

\* main has not run: its locals and the clock at rest
MainIdle ==
    /\ cfg = [update_secs |-> 15, check_interval |-> 1]
    /\ clock = 0
    /\ now = 0
    /\ last_update = 0
    /\ okTimes = <<>>
    /\ interrupted = NotInterrupted
    /\ exitCode = -1
    /\ ticks = 0

HistoryInit ==
    /\ hstate = <<>>
    /\ teardown = NoTeardown
    /\ lastCall = NoCall

\* the variables of the program outside the part a specification is about
HostInit ==
    /\ env = Unset
    /\ mpc = "none"
    /\ MainIdle
    /\ HistoryInit

ClientInit ==
    /\ rpc = 0
    /\ connected = FALSE
    /\ pc = "idle"
    /\ backoff = 0
    /\ state = ""
    /\ raised = "none"
    /\ events = <<>>
    /\ attempts = 0
    /\ handles = 0
    /\ failures = 0
    /\ calls = 0

\* main calls client.safe_update(state=label, ...): backoff = 1.0, enter the loop
SafeUpdateBegin ==
    /\ pc \in {"idle", "returned"}
    /\ calls < MaxCalls
    /\ \E s \in States : state' = s
    /\ backoff' = InitialBackoff
    /\ pc' = "attempt"
    /\ raised' = "none"
    /\ events' = <<>>
    /\ attempts' = 0
    /\ failures' = 0
    /\ calls' = calls + 1
    /\ UNCHANGED <<rpc, connected, handles>>
    /\ UNCHANGED labelVars

\* self.update(...) of a client that is not connected: connect() makes a new
\* Presence and calls its connect
UpdateConnect ==
    /\ pc = "attempt"
    /\ ~connected \/ rpc = 0
    /\ \E o \in Outcomes :
        /\ MayHappen(o)
        /\ rpc' = handles + 1
        /\ handles' = handles + 1
        /\ events' = Append(events, ConnectEvent(handles + 1, o))
        /\ attempts' = attempts + 1
        /\ IF o = "ok"
           THEN /\ connected' = TRUE
                /\ pc' = "send"
                /\ raised' = "none"
                /\ failures' = failures
           ELSE /\ connected' = connected
                /\ pc' = ExceptClause(o).pc
                /\ raised' = ExceptClause(o).raised
                /\ failures' = failures + 1
    /\ UNCHANGED <<backoff, state, calls>>
    /\ UNCHANGED labelVars

\* self.update(...): self._rpc.update(state=state), at once when the client is
\* connected, after connect() otherwise; safe_update returns when it succeeds
UpdateSend ==
    /\ \/ pc = "attempt" /\ connected /\ rpc # 0
       \/ pc = "send"
    /\ \E o \in Outcomes :
        /\ MayHappen(o)
        /\ events' = Append(events, UpdateEvent(rpc, o, state))
        /\ attempts' = IF pc = "attempt" THEN attempts + 1 ELSE attempts
        /\ IF o = "ok"
           THEN /\ pc' = "returned"
                /\ raised' = "none"
                /\ failures' = failures
           ELSE /\ pc' = ExceptClause(o).pc
                /\ raised' = ExceptClause(o).raised
                /\ failures' = failures + 1
    /\ UNCHANGED <<rpc, connected, handles, backoff, state, calls>>
    /\ UNCHANGED labelVars

\* the pipe handler without its self._connected = False
PipeHandler_stays_connected ==
    /\ pc = "pipe_handler"
    /\ events' = Append(events, SleepEvent(backoff))
    /\ backoff' = Doubled(backoff)
    /\ pc' = "reconnect"
    /\ UNCHANGED <<rpc, connected, handles, state, raised, attempts, failures, calls>>
    /\ UNCHANGED labelVars

\* except (InvalidPipe, ConnectionRefusedError): mark the client disconnected,
\* sleep for backoff, double it
PipeHandler ==
    /\ pc = "pipe_handler"
    /\ connected' = FALSE
    /\ events' = Append(events, SleepEvent(backoff))
    /\ backoff' = Doubled(backoff)
    /\ pc' = "reconnect"
    /\ UNCHANGED <<rpc, handles, state, raised, attempts, failures, calls>>
    /\ UNCHANGED labelVars

\* the self.connect() of the pipe handler, inside its own try
Reconnect ==
    /\ pc = "reconnect"
    /\ IF connected /\ rpc # 0
       THEN /\ pc' = "attempt"
            /\ UNCHANGED <<rpc, connected, handles, events, raised, failures>>
       ELSE \E o \in Outcomes :
            /\ MayHappen(o)
            /\ rpc' = handles + 1
            /\ handles' = handles + 1
            /\ events' = Append(events, ConnectEvent(handles + 1, o))
            /\ IF o = "ok"
               THEN /\ connected' = TRUE
                    /\ pc' = "attempt"
                    /\ raised' = "none"
                    /\ failures' = failures
               ELSE /\ connected' = connected
                    /\ pc' = InnerExceptClause(o).pc
                    /\ raised' = InnerExceptClause(o).raised
                    /\ failures' = failures + 1
    /\ UNCHANGED <<backoff, state, attempts, calls>>
    /\ UNCHANGED labelVars

\* except Exception: sleep for backoff, multiply it by 1.5, try again
TransientHandler ==
    /\ pc = "transient_handler"
    /\ events' = Append(events, SleepEvent(backoff))
    /\ backoff' = Slowed(backoff)
    /\ pc' = "attempt"
    /\ UNCHANGED <<rpc, connected, handles, state, raised, attempts, failures, calls>>
    /\ UNCHANGED labelVars

Init ==
    /\ terms = {}
    /\ title = <<>>
    /\ exe = ""
    /\ label = NoLabel
    /\ lpc = "observed"
    /\ ClientInit
    /\ HostInit

Next ==
    \/ SafeUpdateBegin /\ UNCHANGED <<env, mainVars, historyVars>>
    \/ UpdateConnect /\ UNCHANGED <<env, mainVars, historyVars>>
    \/ UpdateSend /\ UNCHANGED <<env, mainVars, historyVars>>
    \/ PipeHandler /\ UNCHANGED <<env, mainVars, historyVars>>
    \/ Reconnect /\ UNCHANGED <<env, mainVars, historyVars>>
    \/ TransientHandler /\ UNCHANGED <<env, mainVars, historyVars>>

Spec == Init /\ [][Next]_vars

----------------------------------------------------------------------------
(* Specification of the PresenceClient methods called in any order *)

\* a caller's record of the method it called
Called(name, left) ==
    [op |-> name, count |-> lastCall.count + 1, prevOp |-> lastCall.op,
     rpcBefore |-> rpc, connectedBefore |-> connected,
     channel |-> left.channel, raised |-> left.raised]

\* no safe_update call is running
AtRest == pc \in {"idle", "returned", "raised"}

\* a method other than safe_update ran from entry to exit; the locals of an
\* earlier safe_update call are gone
Ran(name, left) ==
    /\ rpc' = left.rpc
    /\ connected' = left.connected
    /\ handles' = IF left.rpc > handles THEN left.rpc ELSE handles
    /\ hstate' = Tracked(hstate, left.channel)
    /\ lastCall' = Called(name, left)
    /\ pc' = "idle"
    /\ backoff' = 0
    /\ state' = ""
    /\ raised' = "none"
    /\ events' = <<>>
    /\ attempts' = 0
    /\ failures' = 0
    /\ UNCHANGED calls
    /\ UNCHANGED labelVars
    /\ UNCHANGED <<env, mainVars, teardown>>

\* client.connect()
ApiConnect ==
    /\ AtRest
    /\ lastCall.count < MaxApiCalls
    /\ \E o \in Outcomes :
          /\ (connect(rpc, connected, handles + 1, o).channel = <<>>) => o = "ok"
          /\ Ran("connect", connect(rpc, connected, handles + 1, o))

\* client.update(state=s)
ApiUpdate ==
    /\ AtRest
    /\ lastCall.count < MaxApiCalls
    /\ \E oc, ou \in Outcomes, s \in States :
          LET left == update(rpc, connected, handles + 1, oc, ou, s)
          IN  /\ (\A i \in 1..Len(left.channel) : left.channel[i].op # "connect")
                    => oc = "ok"
              /\ (\A i \in 1..Len(left.channel) : left.channel[i].op # "update")
                    => ou = "ok"
              /\ Ran("update", left)

\* client.close()
ApiClose ==
    /\ AtRest
    /\ lastCall.count < MaxApiCalls
    /\ \E ocl, ocs \in Outcomes :
          LET left == close(rpc, connected, ocl, ocs)
          IN  /\ Len(left.channel) < 1 => ocl = "ok"
              /\ Len(left.channel) < 2 => ocs = "ok"
              /\ Ran("close", left)

\* a call begun or a channel call failed: a counter went up
Effort(before, after) == IF after > before THEN 1 ELSE 0

\* a step of a client.safe_update(...) call
SafeUpdateStep(step) ==
    /\ step
    /\ hstate' = Tracked(hstate, Added(events, events'))
    /\ lastCall' = [NoCall EXCEPT !.op = "safe_update",
                                  !.count = lastCall.count + Effort(calls, calls')
                                                           + Effort(failures, failures')]
    /\ lastCall'.count <= MaxApiCalls
    /\ UNCHANGED <<env, mainVars, teardown>>

InitApi ==
    /\ terms = {}
    /\ title = <<>>
    /\ exe = ""
    /\ label = NoLabel
    /\ lpc = "observed"
    /\ ClientInit
    /\ HostInit

NextApi ==
    \/ ApiConnect
    \/ ApiUpdate
    \/ ApiClose
    \/ SafeUpdateStep(SafeUpdateBegin)
    \/ SafeUpdateStep(UpdateConnect)
    \/ SafeUpdateStep(UpdateSend)
    \/ SafeUpdateStep(PipeHandler)
    \/ SafeUpdateStep(Reconnect)
    \/ SafeUpdateStep(TransientHandler)

SpecApi == InitApi /\ [][NextApi]_vars

----------------------------------------------------------------------------
(* Specification of main: the poll loop, the interrupt and the shutdown.
   Time passes in the sleeps only; a channel call takes no time. *)

Max(a, b) == IF a >= b THEN a ELSE b

\* what time.time() returns when main starts: later than any cadence
Epoch == 1000 * OneSecond

\* --update-secs and --check-interval, any integers
UpdateSecsSettings == {-1, 0, 3}

CheckIntervalSettings == {0, 1}

\* max(2, args.update_secs), in clock units
Cadence == Max(2, cfg.update_secs) * OneSecond

\* max(0.1, args.check_interval), in clock units
PollSleepTime == Max(OneSecond \div 10, cfg.check_interval * OneSecond)

\* the exception left of e after `except Exception: pass`
Swallowed_nothing(e) == e

Swallowed(e) == "none"

\* the time the sleep of a step of safe_update took
Slept(before, after) ==
    IF Len(after) = Len(before) + 1 /\ after[Len(after)].op = "sleep"
    THEN after[Len(after)].secs
    ELSE 0

\* the successful channel update of a step of safe_update, timed
Published(before, after, t) ==
    IF Len(after) = Len(before) + 1 /\ after[Len(after)].op = "update"
                                    /\ after[Len(after)].outcome = "ok"
    THEN <<t>>
    ELSE <<>>

InitMain ==
    /\ terms = {}
    /\ title = <<>>
    /\ exe = ""
    /\ label = NoLabel
    /\ lpc = "observed"
    /\ ClientInit
    /\ env = Unset
    /\ mpc = "loop"
    /\ cfg \in [update_secs : UpdateSecsSettings, check_interval : CheckIntervalSettings]
    /\ clock = Epoch
    /\ now = 0
    /\ last_update = 0
    /\ okTimes = <<>>
    /\ interrupted = NotInterrupted
    /\ exitCode = -1
    /\ ticks = 0
    /\ HistoryInit

\* now = time.time(); the cadence has passed: probe, classify, call safe_update
TickPublish ==
    /\ mpc = "loop"
    /\ ticks < MaxTicks
    /\ clock - last_update >= Cadence
    /\ now' = clock
    /\ ticks' = ticks + 1
    /\ SafeUpdateBegin
    /\ mpc' = "publishing"
    /\ UNCHANGED <<env, cfg, clock, last_update, okTimes, interrupted, exitCode>>
    /\ UNCHANGED historyVars

\* now = time.time(); the cadence has not passed
TickSkip ==
    /\ mpc = "loop"
    /\ ticks < MaxTicks
    /\ clock - last_update < Cadence
    /\ now' = clock
    /\ ticks' = ticks + 1
    /\ mpc' = "sleeping"
    /\ UNCHANGED <<env, cfg, clock, last_update, okTimes, interrupted, exitCode>>
    /\ UNCHANGED historyVars
    /\ UNCHANGED clientVars
    /\ UNCHANGED labelVars

\* a step of the safe_update call of main
MainStep(step) ==
    /\ mpc = "publishing"
    /\ step
    /\ ticks + failures' <= MaxTicks
    /\ clock' = clock + Slept(events, events')
    /\ okTimes' = okTimes \o Published(events, events', clock)
    /\ hstate' = Tracked(hstate, Added(events, events'))
    /\ UNCHANGED <<env, mpc, cfg, now, last_update, interrupted, exitCode, ticks>>
    /\ UNCHANGED <<teardown, lastCall>>

\* safe_update returned: last_update = now
Stamp ==
    /\ mpc = "publishing"
    /\ pc = "returned"
    /\ last_update' = now
    /\ mpc' = "sleeping"
    /\ UNCHANGED <<env, cfg, clock, now, okTimes, interrupted, exitCode, ticks>>
    /\ UNCHANGED historyVars
    /\ UNCHANGED clientVars
    /\ UNCHANGED labelVars

\* safe_update raised: no except clause of main matches, the finally block runs
Propagate ==
    /\ mpc = "publishing"
    /\ pc = "raised"
    /\ mpc' = "finally"
    /\ UNCHANGED <<env, cfg, clock, now, last_update, okTimes, interrupted, exitCode, ticks>>
    /\ UNCHANGED historyVars
    /\ UNCHANGED clientVars
    /\ UNCHANGED labelVars

\* time.sleep(max(0.1, args.check_interval))
PollSleep ==
    /\ mpc = "sleeping"
    /\ clock' = clock + PollSleepTime
    /\ mpc' = "loop"
    /\ UNCHANGED <<env, cfg, now, last_update, okTimes, interrupted, exitCode, ticks>>
    /\ UNCHANGED historyVars
    /\ UNCHANGED clientVars
    /\ UNCHANGED labelVars

\* KeyboardInterrupt between two statements of the loop, at the poll sleep, or
\* between two steps of safe_update (before a handler has run, after it, after
\* safe_update returned): except KeyboardInterrupt, then finally
Interrupt ==
    /\ mpc \in {"loop", "sleeping", "publishing"}
    /\ mpc = "publishing" => pc # "raised"
    /\ interrupted' = [seen |-> TRUE, during |-> IF mpc = "publishing" THEN pc ELSE mpc,
                       ticks |-> ticks]
    /\ mpc' = "finally"
    /\ UNCHANGED <<env, cfg, clock, now, last_update, okTimes, exitCode, ticks>>
    /\ UNCHANGED historyVars
    /\ UNCHANGED clientVars
    /\ UNCHANGED labelVars

\* KeyboardInterrupt in the time.sleep(backoff) of a handler of safe_update: the
\* pipe handler has already marked the client disconnected, backoff is not grown
InterruptBackoffSleep ==
    /\ mpc = "publishing"
    /\ pc \in {"pipe_handler", "transient_handler"}
    /\ connected' = IF pc = "pipe_handler" THEN FALSE ELSE connected
    /\ clock' = clock + (backoff \div 2)
    /\ interrupted' = [seen |-> TRUE, during |-> "backoff_sleep", ticks |-> ticks]
    /\ mpc' = "finally"
    /\ UNCHANGED <<env, cfg, now, last_update, okTimes, exitCode, ticks>>
    /\ UNCHANGED historyVars
    /\ UNCHANGED <<rpc, pc, backoff, state, raised, events, attempts, handles,
                   failures, calls>>
    /\ UNCHANGED labelVars

\* finally: try: client.close() except Exception: pass; then return 0, or the
\* exception of safe_update goes on out of main
Finally ==
    /\ mpc = "finally"
    /\ \E ocl, ocs \in Outcomes :
          LET left == close(rpc, connected, ocl, ocs)
              pending == IF ~interrupted.seen /\ pc = "raised" THEN raised ELSE "none"
          IN  /\ Len(left.channel) < 1 => ocl = "ok"
              /\ Len(left.channel) < 2 => ocs = "ok"
              /\ rpc' = left.rpc
              /\ connected' = left.connected
              /\ hstate' = Tracked(hstate, left.channel)
              /\ teardown' = [calls |-> teardown.calls + 1, rpcBefore |-> rpc,
                              channel |-> left.channel, raised |-> left.raised]
              /\ exitCode' = IF Swallowed(left.raised) = "none" /\ pending = "none"
                             THEN 0 ELSE 1
    /\ mpc' = "exited"
    /\ UNCHANGED <<env, cfg, clock, now, last_update, okTimes, interrupted, ticks>>
    /\ UNCHANGED lastCall
    /\ UNCHANGED <<pc, backoff, state, raised, events, attempts, handles, failures, calls>>
    /\ UNCHANGED labelVars

NextMain ==
    \/ TickPublish
    \/ TickSkip
    \/ MainStep(UpdateConnect)
    \/ MainStep(UpdateSend)
    \/ MainStep(PipeHandler)
    \/ MainStep(Reconnect)
    \/ MainStep(TransientHandler)
    \/ Stamp
    \/ Propagate
    \/ PollSleep
    \/ Interrupt
    \/ InterruptBackoffSleep
    \/ Finally

SpecMain == InitMain /\ [][NextMain]_vars

----------------------------------------------------------------------------
(* Specification of the classifier: one observation, classified once *)

InitLabel ==
    /\ terms \in TermSets
    /\ title \in Titles
    /\ exe \in Exes
    /\ label = NoLabel
    /\ lpc = "observed"
    /\ ClientInit
    /\ HostInit

\* main: label, image = derive_label(title, exe)
Classify ==
    /\ lpc = "observed"
    /\ label' = derive_label(title, exe)
    /\ lpc' = "classified"
    /\ UNCHANGED <<terms, title, exe>>
    /\ UNCHANGED clientVars

NextLabel == Classify /\ UNCHANGED <<env, mainVars, historyVars>>

SpecLabel == InitLabel /\ [][NextLabel]_vars

----------------------------------------------------------------------------
(* Specification of the start-up: MASK_TERMS is read and parsed once *)

InitTerms ==
    /\ env \in MaskTermsSettings
    /\ mpc = "startup"
    /\ terms = {}
    /\ title = <<>>
    /\ exe = ""
    /\ label = NoLabel
    /\ lpc = "observed"
    /\ ClientInit
    /\ MainIdle
    /\ HistoryInit

\* SENSITIVE_TERMS = parse_mask_terms()
ParseMaskTerms ==
    /\ mpc = "startup"
    /\ terms' = parse_mask_terms(env)
    /\ mpc' = "configured"
    /\ UNCHANGED <<title, exe, label, lpc, env>>
    /\ UNCHANGED clientVars
    /\ UNCHANGED <<cfg, clock, now, last_update, okTimes, interrupted, exitCode, ticks>>
    /\ UNCHANGED historyVars

NextTerms == ParseMaskTerms

SpecTerms == InitTerms /\ [][NextTerms]_vars

----------------------------------------------------------------------------
(* Properties of the classifier, checked under SpecLabel *)

\* needle occurs in hay when both are compared without regard to case
ContainsIgnoreCase(hay, needle) ==
    \E i \in 1..(Len(hay) - Len(needle) + 1) :
        \A k \in 1..Len(needle) : LowerChar(hay[i + k - 1]) = LowerChar(needle[k])

\* the title contains a configured term, case-insensitively
Sensitive == \E term \in terms : ContainsIgnoreCase(title, term)

\* the title is empty or whitespace only
Blank == \A i \in 1..Len(title) : IsSpace(title[i])

Classified == lpc = "classified"

\* C1: a title that contains a configured sensitive term (case-insensitive
\* substring) is classified as exactly the masked constant with no image hint,
\* whatever the executable is (browser, mapped, unmapped or empty).
C1_MaskingWins ==
    (Classified /\ Sensitive) =>
        label = [text |-> SAFE_MASK_MESSAGE, image |-> "None"]

\* C1 witness: a title that matches a term only through case folding, in the
\* window of a mapped application, has been classified.
C1_Witness ==
    /\ Classified
    /\ exe \in DOMAIN APP_MAP
    /\ title # <<>>
    /\ \E term \in terms : ContainsIgnoreCase(title, term)
    /\ \A term \in terms : ~Contains(title, term)
    /\ label.text = SAFE_MASK_MESSAGE

\* C2: the label text never contains a configured sensitive term as a
\* case-insensitive substring.
C2_LabelFreeOfTerms ==
    Classified => \A term \in terms : ~ContainsIgnoreCase(label.text, term)

\* C3: an empty or whitespace-only title that matches no sensitive term is
\* classified as exactly the idle constant, whatever the executable is.
C3_BlankIsIdle ==
    (Classified /\ Blank /\ ~Sensitive) => label.text = SAFE_IDLE_MESSAGE

\* C4: for a browser executable and a title from which no hostname can be
\* extracted (the fallback branch: the title is not empty and not sensitive), the
\* text begins with "Browsing " and its total length is at most the maximum
\* label length.
C4_BrowserFallbackBounded ==
    (/\ Classified
     /\ exe \in BROWSERS
     /\ title # <<>>
     /\ ~Sensitive
     /\ DOMAIN_RE_search(title) = <<>>)
        => (StartsWith(label.text, BrowsingPrefix) /\ Len(label.text) <= MaxLabelLen)

\* C5: for an executable of the application map and a non-empty title that
\* matches no sensitive term, the label is the static mapped label: it does not
\* depend on the title.
C5_MappedLabelIgnoresTitle ==
    (Classified /\ exe \in DOMAIN APP_MAP /\ title # <<>> /\ ~Sensitive) =>
        label = [text |-> APP_MAP[exe], image |-> "None"]

\* C5 witness: a long title with whitespace to collapse, in the window of a
\* mapped application, has been classified.
C5_Witness ==
    /\ Classified
    /\ exe = "excel.exe"
    /\ terms # {}
    /\ ~Sensitive
    /\ Len(title) > MaxLabelLen
    /\ CollapseWhitespace(title) # title
    /\ label.text = APP_MAP["excel.exe"]

----------------------------------------------------------------------------
(* Properties of safe_update, checked under Spec *)

\* the durations of the sleeps of the running call, in order
Sleeps ==
    LET slept == SelectSeq(events, LAMBDA e : e.op = "sleep")
    IN  [i \in 1..Len(slept) |-> slept[i].secs]

\* the channel calls (connect, update) of the running call, in order
ChannelCalls == SelectSeq(events, LAMBDA e : e.op # "sleep")

Returned == pc = "returned"

Raised == pc = "raised"

\* the channel failed with connection-unavailable some number of times and
\* succeeded from then on
UnavailableThenOk ==
    /\ \A i \in 1..Len(ChannelCalls) :
          ChannelCalls[i].outcome \in {"ok", "unavailable"}
    /\ \A i, j \in 1..Len(ChannelCalls) :
          (i < j /\ ChannelCalls[i].outcome = "ok") => ChannelCalls[j].outcome = "ok"

\* C6: when the channel fails with connection-unavailable exactly n times and
\* then succeeds, safe_update returns after exactly n + 1 attempts and n sleeps,
\* the i-th sleep lasting min(16, 2^(i-1)) seconds.
C6_RetriesAndSleeps ==
    (Returned /\ UnavailableThenOk) =>
        /\ attempts = failures + 1
        /\ Len(Sleeps) = failures
        /\ \A i \in 1..Len(Sleeps) :
              Sleeps[i] = Min(16 * OneSecond, (2 ^ (i - 1)) * OneSecond)

\* C7: when the first channel call of safe_update fails with invalid-credential,
\* safe_update raises that failure with no sleep and no further channel call.
C7_InvalidIdFirstRaisesAtOnce ==
    (events # <<>> /\ events[1].op \in {"connect", "update"}
                   /\ events[1].outcome = "invalid_id") =>
        /\ Raised
        /\ raised = "invalid_id"
        /\ Len(events) = 1

\* C7 witness: the update call of a connected client (the second safe_update
\* call) failed with invalid-credential and safe_update raised.
C7_Witness ==
    /\ Raised
    /\ raised = "invalid_id"
    /\ calls = 2
    /\ events = <<UpdateEvent(rpc, "invalid_id", state)>>

\* C8: the only failure safe_update raises to its caller is invalid-credential.
C8_OnlyInvalidIdPropagates == Raised => raised = "invalid_id"

C10_EndsBySuccessOrInvalidId ==
    /\ Returned =>
          /\ events # <<>>
          /\ events[Len(events)] = UpdateEvent(rpc, "ok", state)
    /\ Raised => raised = "invalid_id"

\* the positions of the channel calls in the log of the running call
CallsAt == {k \in 1..Len(events) : events[k].op # "sleep"}

\* the position of the first channel call after position k, 0 when there is none
NextCallAfter(k) ==
    IF \E n \in CallsAt : n > k
    THEN CHOOSE n \in CallsAt : n > k /\ \A j \in CallsAt : j > k => n <= j
    ELSE 0

\* the position of the last channel call before position k, 0 when there is none
PrevCallBefore(k) ==
    IF \E n \in CallsAt : n < k
    THEN CHOOSE n \in CallsAt : n < k /\ \A j \in CallsAt : j < k => j <= n
    ELSE 0

\* C16: a channel call of safe_update that fails with invalid-credential is the
\* last channel call of that safe_update call, whose caller gets the failure.
C16_InvalidIdAlwaysRaisedAtOnce ==
    \A k \in CallsAt :
        events[k].outcome = "invalid_id" =>
            /\ k = Len(events)
            /\ Raised
            /\ raised = "invalid_id"

\* C17: within one safe_update call a failed channel call is followed by a
\* sleep before the next channel call.
C17_SleepAfterEveryFailure ==
    \A k \in CallsAt :
        (events[k].outcome # "ok" /\ k < Len(events)) => events[k + 1].op = "sleep"

\* C18: an update is sent only on the handle of a connected session: right
\* after that handle's successful connect, after a transient failure of an
\* update on it, or first thing in a call that found the session connected. A
\* successful update leaves the session connected on the same handle; after a
\* connection-unavailable failure of an update the session is disconnected and
\* the next channel call is a connect on a new handle; after any other failure
\* of an update the session stays connected on the same handle and the next
\* channel call is an update on that handle.
C18_SessionTransitions ==
    /\ pc = "send" => connected /\ events[Len(events)] = ConnectEvent(rpc, "ok")
    /\ pc = "reconnect" => ~connected
    /\ \A k \in CallsAt :
          events[k].op = "update" =>
              LET p == PrevCallBefore(k)
                  n == NextCallAfter(k)
                  h == events[k].handle
              IN  /\ h # 0
                  /\ IF p = 0
                     THEN k = 1 /\ calls > 1
                     ELSE \/ events[p] = ConnectEvent(h, "ok")
                          \/ events[p] = UpdateEvent(h, "other", state)
                  /\ events[k].outcome = "ok" =>
                        k = Len(events) /\ Returned /\ connected /\ rpc = h
                  /\ events[k].outcome = "unavailable" =>
                        /\ k = Len(events) => pc = "pipe_handler"
                        /\ n # 0 => events[n].op = "connect" /\ events[n].handle > h
                        /\ (k < Len(events) /\ n = 0) => ~connected
                  /\ events[k].outcome = "other" =>
                        /\ n # 0 => events[n].op = "update" /\ events[n].handle = h
                        /\ n = 0 => connected /\ rpc = h

\* C18 witness: in one call a disconnected session connected, an update failed
\* transiently and was sent again on the same handle, failed with
\* connection-unavailable, and the update then succeeded on a new handle.
C18_Witness ==
    /\ Returned
    /\ calls = 1
    /\ \E k \in CallsAt :
          /\ events[k] = UpdateEvent(1, "other", state)
          /\ NextCallAfter(k) # 0
          /\ events[NextCallAfter(k)] = UpdateEvent(1, "unavailable", state)
    /\ events[Len(events)] = UpdateEvent(2, "ok", state)
    /\ connected
    /\ rpc = 2

----------------------------------------------------------------------------
(* Properties of the start-up configuration, checked under SpecTerms *)

\* the entries of the MASK_TERMS value: split on commas, trimmed, lowercased,
\* the empty ones dropped
ConfiguredEntries ==
    IF ~env.set THEN {}
    ELSE LET pieces == SplitOnComma(env.value)
         IN  {Lower(Strip(pieces[i])) : i \in 1..Len(pieces)} \ {<<>>}

\* C15: the stored term set is the set of entries of MASK_TERMS (split on commas,
\* trimmed, lowercased, empty entries dropped), and the built-in default set
\* whenever that set is empty, so it is never empty.
C15_TermsNeverEmpty ==
    mpc = "configured" =>
        /\ terms # {}
        /\ ConfiguredEntries # {} => terms = ConfiguredEntries
        /\ ConfiguredEntries = {} => terms = Range(DEFAULT_SENSITIVE_TERMS)

----------------------------------------------------------------------------
(* Properties of the PresenceClient methods, checked under SpecApi *)

\* C13: close() raises nothing, calls clear and close on the handle the session
\* held, leaves the session disconnected with no handle, and a connect() that
\* follows it opens a new channel.
C13_CloseNeverRaises ==
    /\ lastCall.op = "close" =>
          /\ lastCall.raised = "none"
          /\ lastCall.rpcBefore # 0 =>
                /\ Len(lastCall.channel) = 2
                /\ lastCall.channel[1].op = "clear"
                /\ lastCall.channel[1].handle = lastCall.rpcBefore
                /\ lastCall.channel[2].op = "close"
                /\ lastCall.channel[2].handle = lastCall.rpcBefore
          /\ rpc = 0
          /\ ~connected
    /\ (lastCall.op = "connect" /\ lastCall.prevOp = "close") =>
          /\ Len(lastCall.channel) = 1
          /\ lastCall.channel[1].op = "connect"
          /\ lastCall.channel[1].handle = handles
          /\ ~hstate[handles].closed

\* C14: connect() on a connected session makes no channel call and leaves the
\* handle and the connection flag as they were; on a disconnected session it
\* makes one channel connect and either ends connected on that handle, raising
\* nothing, or stays disconnected and raises the failure of the channel connect.
C14_ConnectIdempotentOrSurfaces ==
    lastCall.op = "connect" =>
        IF lastCall.connectedBefore
        THEN /\ lastCall.channel = <<>>
             /\ lastCall.raised = "none"
             /\ rpc = lastCall.rpcBefore
             /\ connected
        ELSE /\ Len(lastCall.channel) = 1
             /\ lastCall.channel[1].op = "connect"
             /\ lastCall.channel[1].handle > lastCall.rpcBefore
             /\ IF lastCall.channel[1].outcome = "ok"
                THEN /\ connected
                     /\ rpc = lastCall.channel[1].handle
                     /\ lastCall.raised = "none"
                ELSE /\ ~connected
                     /\ lastCall.raised = lastCall.channel[1].outcome

\* C14 witness: connect() was called on a connected session, in a run where an
\* earlier channel connect had failed and left the session disconnected.
C14_Witness ==
    /\ lastCall.op = "connect"
    /\ lastCall.connectedBefore
    /\ lastCall.rpcBefore # 0
    /\ lastCall.prevOp = "connect"
    /\ \E h \in 1..Len(hstate) : ~hstate[h].opened

\* C19: a session flagged connected holds a handle whose connect succeeded and
\* on which no connection-unavailable failure was seen since (the moment between
\* such a failure and its handler in safe_update set aside); the assertion in
\* update never fails, and every channel update is made on a handle whose
\* connect succeeded.
C19_ConnectedMeansLiveHandle ==
    /\ (connected /\ pc # "pipe_handler") =>
          /\ rpc # 0
          /\ rpc <= Len(hstate)
          /\ hstate[rpc].opened
          /\ ~hstate[rpc].broken
    /\ lastCall.raised # "AssertionError"
    /\ \A i \in 1..Len(lastCall.channel) :
          lastCall.channel[i].op = "update" => hstate[lastCall.channel[i].handle].opened
    /\ \A i \in 1..Len(events) :
          events[i].op = "update" => hstate[events[i].handle].opened

----------------------------------------------------------------------------
(* Properties of main, checked under SpecMain *)

\* C11: two successive successful channel updates are at least
\* max(2, update_secs) seconds apart.
C11_CadenceBetweenPublishes ==
    \A i \in 1..(Len(okTimes) - 1) : okTimes[i + 1] - okTimes[i] >= Cadence

\* C12: once an interrupt has arrived the loop is left and no further tick
\* starts; close() is called once, and when it has run the session is
\* disconnected with no handle and main returns 0, whether or not close() failed.
C12_InterruptShutsDownCleanly ==
    interrupted.seen =>
        /\ mpc \in {"finally", "exited"}
        /\ ticks = interrupted.ticks
        /\ mpc = "finally" => teardown.calls = 0 /\ exitCode = -1
        /\ mpc = "exited" =>
              /\ teardown.calls = 1
              /\ \A i \in 1..Len(teardown.channel) :
                    teardown.channel[i].op \in {"clear", "close"}
              /\ rpc = 0
              /\ ~connected
              /\ exitCode = 0

\* C12 witness: the interrupt arrived in a backoff sleep of safe_update, close()
\* failed on the handle the session held, and main has returned.
C12_Witness ==
    /\ interrupted.seen
    /\ interrupted.during = "backoff_sleep"
    /\ mpc = "exited"
    /\ teardown.rpcBefore # 0
    /\ teardown.raised # "none"

\* the handles whose connect succeeded and whose close has not been called
OpenHandles == {h \in 1..Len(hstate) : hstate[h].opened /\ ~hstate[h].closed}

\* C20: when main has returned, close has been called on every handle whose
\* connect succeeded, and there is never more than one such handle not yet
\* closed.
C20_EveryOpenedHandleClosed ==
    /\ mpc = "exited" => OpenHandles = {}
    /\ Cardinality(OpenHandles) <= 1

====
